---- MODULE Spec2Model ----
(***************************************************************************)
(* Model of the glider evolution service.                                  *)
(*                                                                         *)
(*   - optimization.iterate_population / fitness_func: one generation of   *)
(*     the genetic algorithm (evaluate, rank, select, clone, random fill). *)
(*   - serving.server.run_evolution.generate: the generator that streams   *)
(*     one event per generation.                                           *)
(*   - surface.spherical_delaunay_surface: the surface builder, a pure     *)
(*     function checked under its own specification SurfSpec.              *)
(*                                                                         *)
(* Abstractions.  A genome's vertex cloud is a small integer (a "gene      *)
(* value"); the simulator is a deterministic table on gene values.  The    *)
(* weights of a request are tenths (3 stands for 0.3), so that             *)
(* int(population_size * weight) is an exact integer computation.          *)
(* generate() calls iterate_population with the keywords max_dim_m, pilot  *)
(* and mass_kg and unpacks (ranking, population) from it; the body of      *)
(* iterate_population is that of optimization.py, which uses none of the   *)
(* keywords, and the ranking handed back is its local `ranking`.           *)
(***************************************************************************)
EXTENDS Integers, Sequences, FiniteSets, TLC

\* ---------------------------------------------------------------- bounds
MaxPop == 3
MaxGen == 2
MaxGene == 3
MaxPts == 5

\* The loop of fitness_func has no bound of its own: the model counts the
\* steps of one drop test modulo StepCap + 1.  No drop that lands takes more
\* than StepCap steps, so the count of a drop that lands is exact.
StepCap == MaxGene

Genes == 0 .. MaxGene

\* The <<survival_weight, cloning_weight>> pairs of a request, in tenths:
\* the defaults of EvolutionRequest, a pair that leaves room for a random
\* fill, a pair that sums to 1.0, a pair that sums to more, and a pair with
\* a negative weight (EvolutionRequest declares plain floats, so the server
\* accepts it).
WeightPairs == {<<3, 4>>, <<4, 4>>, <<7, 3>>, <<7, 4>>, <<-5, 7>>}

\* ------------------------------------------------------------ helpers
Min(a, b) == IF a <= b THEN a ELSE b
Max(a, b) == IF a >= b THEN a ELSE b

\* Python's int() on the float population_size * weight: truncation toward
\* zero of (n * tenths) / 10.
IntOfProduct(n, tenths) ==
    IF n * tenths >= 0 THEN (n * tenths) \div 10 ELSE -((-(n * tenths)) \div 10)

\* The mathematical floor of population_size * weight.
FloorOfProduct(n, tenths) == (n * tenths) \div 10

\* Python's s[:k], also for a negative k.
SliceTo(s, k) ==
    IF k >= 0 THEN SubSeq(s, 1, Min(k, Len(s)))
              ELSE SubSeq(s, 1, Max(Len(s) + k, 0))

\* Python's range(k) as the index set 1..k (empty for k <= 0).
RangeLen(k) == Max(k, 0)

\* ------------------------------------------------------------ the genome
\* Vehicle's constructor default of `pilot`, the value a Vehicle gets when
\* the keyword is not passed.
DefaultPilot == FALSE

Vehicle(vertices, pilot) == [v |-> vertices, pilot |-> pilot]

\* Vehicle.mutate(): a new vertex set of the same length, each vertex
\* perturbed with probability MUTATION_CHANCE, so possibly none.
Mutations(g) == {h \in Genes : h - g \in {-1, 0, 1}}

\* ------------------------------------------------------------ simulator
\* The number of mj_step calls after which the drop of genome g registers
\* its first contact; 0 stands for a drop that never registers one.
LandingStep(g) == (g + 1) \div 2

Landed(g, steps) == LandingStep(g) # 0 /\ steps >= LandingStep(g)

\* abs(data.geom(GLIDER_GEOM_NAME).xpos[0]) at the first contact.
Fitness(g) == g % 2

\* ------------------------------------------------------------ ranking
\* zip(population, results)
RECURSIVE Zip(_, _)
Zip(p, r) ==
    IF p = <<>> \/ r = <<>> THEN <<>>
    ELSE << <<Head(p), Head(r)>> >> \o Zip(Tail(p), Tail(r))

RECURSIVE InsertReversing(_, _)
InsertReversing(sorted, x) ==
    IF sorted = <<>> THEN <<x>>
    ELSE IF Head(sorted)[2] > x[2]
         THEN <<Head(sorted)>> \o InsertReversing(Tail(sorted), x)
         ELSE <<x>> \o sorted

\* One step of the stable descending sort: x goes behind every pair whose
\* fitness is at least its own.
RECURSIVE InsertDesc(_, _)
InsertDesc(sorted, x) ==
    IF sorted = <<>> THEN <<x>>
    ELSE IF Head(sorted)[2] >= x[2]
         THEN <<Head(sorted)>> \o InsertDesc(Tail(sorted), x)
         ELSE <<x>> \o sorted

\* ranking.sort(key=lambda x: x[1], reverse=True): list.sort is stable,
\* also with reverse=True.
RECURSIVE SortByFitnessDesc(_)
SortByFitnessDesc(s) ==
    IF s = <<>> THEN <<>>
    ELSE InsertDesc(SortByFitnessDesc(SubSeq(s, 1, Len(s) - 1)), s[Len(s)])

SurvivorsFromTail(rk, n, sw) ==
    LET k      == Min(RangeLen(IntOfProduct(n, sw)), Len(rk))
        bottom == SubSeq(rk, Len(rk) - k + 1, Len(rk))
    IN  [i \in 1 .. Len(bottom) |-> bottom[i][1]]

\* ranking[: int(population_size * survival_weight)], genomes only
SurvivorsOf(rk, n, sw) ==
    LET top == SliceTo(rk, IntOfProduct(n, sw))
    IN  [i \in 1 .. Len(top) |-> top[i][1]]

\* range(int(population_size * cloning_weight))
NumClones(n, cw) == RangeLen(IntOfProduct(n, cw))

\* The clone lists the loop of lines 77-83 can build: clone i is
\* Vehicle(vertices=survivors[i % len(survivors)].mutate()).
CloneLists(sv, k) ==
    {cl \in [1 .. k -> [v : Genes, pilot : {DefaultPilot}]] :
        \A i \in 1 .. k : cl[i].v \in Mutations(sv[((i - 1) % Len(sv)) + 1].v)}

\* The random fill: Vehicle(num_vertices=NUM_GENES, max_dim_m=GLIDER_MAX_DIM)
FillLists(k) == [1 .. k -> [v : Genes, pilot : {DefaultPilot}]]

\* sum(all_fitnesses)
RECURSIVE SumFitness(_)
SumFitness(rk) == IF rk = <<>> THEN 0 ELSE Head(rk)[2] + SumFitness(Tail(rk))

\* The GenerationResult built from a ranking; avg_fitness is kept as the
\* pair <<sum, count>>.
GenerationResult(g, rk) ==
    [generation         |-> g,
     best_fitness       |-> rk[1][2],
     avg_fitness        |-> <<SumFitness(rk), Len(rk)>>,
     best_vehicle       |-> rk[1][1],
     population_fitness |-> [i \in 1 .. Len(rk) |-> rk[i][2]]]


\* ------------------------------------------------------------ surface
\* spherical_delaunay_surface(vertices, center, rounding_decimals).  Points
\* are integer 3-vectors.  Indices are Python's: a face holds 0-based indices
\* into the point list, while the sequences of the model are 1-based.

NoCenter == "None"

\* The points a vertex cloud is drawn from: the origin, the three unit
\* points, and a point whose direction from the origin rounds to that of
\* <<1, 0, 0>> at no decimals and to another at one.
Palette == {<<0, 0, 0>>, <<1, 0, 0>>, <<0, 1, 0>>, <<0, 0, 1>>, <<2, 1, 0>>}

Centers == {NoCenter, <<0, 0, 0>>}

\* Values of rounding_decimals (the default 6 is beyond TLC's integers).
Decimals == {0, 1}

RECURSIVE Pow10(_)
Pow10(d) == IF d = 0 THEN 1 ELSE 10 * Pow10(d - 1)

RECURSIVE VecSum(_)
VecSum(points) ==
    IF points = <<>> THEN <<0, 0, 0>>
    ELSE LET r == VecSum(Tail(points))
         IN  <<Head(points)[1] + r[1], Head(points)[2] + r[2],
               Head(points)[3] + r[3]>>

\* directions = points - center_vec.  With center None the center is the
\* mean; the directions are then kept multiplied by the number of points,
\* which changes neither which of them are zero nor their unit vectors.
Directions(points, center) ==
    IF center = NoCenter
    THEN LET n == Len(points)
             t == VecSum(points)
         IN  [i \in 1 .. n |->
                <<n * points[i][1] - t[1], n * points[i][2] - t[2],
                  n * points[i][3] - t[3]>>]
    ELSE [i \in 1 .. Len(points) |->
            <<points[i][1] - center[1], points[i][2] - center[2],
              points[i][3] - center[3]>>]

NormSq(d) == d[1] * d[1] + d[2] * d[2] + d[3] * d[3]

\* valid = norms > 1e-12: of integer vectors, the nonzero ones.
Valid(d) == NormSq(d) > 0

\* np.nonzero(valid)[0]: the 0-based indices of the valid directions.
RECURSIVE OriginalIndices(_, _)
OriginalIndices(directions, i) ==
    IF i > Len(directions) THEN <<>>
    ELSE (IF Valid(directions[i]) THEN <<i - 1>> ELSE <<>>)
         \o OriginalIndices(directions, i + 1)

\* round(x / norm, decimals) in units of 10^-decimals: the number of k with
\* scale * |x| / norm >= k - 1/2, with the sign of x.  No component of an
\* integer vector lies exactly halfway at 0 or 1 decimals, so rounding half
\* to even and half up agree.
RoundUnit(x, nsq, scale) ==
    LET m == Cardinality({k \in 1 .. scale :
                 (2 * k - 1) * (2 * k - 1) * nsq <= 4 * scale * scale * x * x})
    IN  IF x >= 0 THEN m ELSE -m

\* rounded = np.round(directions[valid] / norms[valid], decimals)
Rounded(directions, original_indices, decimals) ==
    [j \in 1 .. Len(original_indices) |->
        LET d == directions[original_indices[j] + 1]
            s == Pow10(decimals)
        IN  <<RoundUnit(d[1], NormSq(d), s), RoundUnit(d[2], NormSq(d), s),
              RoundUnit(d[3], NormSq(d), s)>>]

LexLess(a, b) ==
    \/ a[1] < b[1]
    \/ a[1] = b[1] /\ a[2] < b[2]
    \/ a[1] = b[1] /\ a[2] = b[2] /\ a[3] < b[3]

\* np.unique(rounded, axis=0): the distinct rows in lexicographic order
UniqueDirs(rounded) ==
    LET rows == {rounded[j] : j \in 1 .. Len(rounded)}
    IN  [k \in 1 .. Cardinality(rows) |->
            CHOOSE u \in rows : Cardinality({w \in rows : LexLess(w, u)}) = k - 1]

\* return_index=True: the 0-based index of the first occurrence of each
\* unique row.
UniqueIdx(rounded) ==
    LET u == UniqueDirs(rounded)
    IN  [k \in 1 .. Len(u) |->
            (CHOOSE j \in 1 .. Len(rounded) :
                /\ rounded[j] = u[k]
                /\ \A h \in 1 .. j - 1 : rounded[h] # u[k]) - 1]

\* The three guards of the early returns.
TooFewPoints(points) == Len(points) < 4

TooFewValid(original_indices) == Len(original_indices) < 4

TooFewUniqueAt3(unique_dirs) == Len(unique_dirs) < 3

TooFewUnique(unique_dirs) == Len(unique_dirs) < 4

\* The faces trimesh's convex hull can hand back for n input points: index
\* triples into the hull's vertex list, which has at most n entries.  One
\* face stands for the list (the mapping below works face by face), with its
\* indices ascending (the winding order plays no part in it).
HullFaces(n) ==
    {f \in (0 .. n - 1) \X (0 .. n - 1) \X (0 .. n - 1) : f[1] < f[2] /\ f[2] < f[3]}

\* faces = original_indices[unique_idx][hull.faces]
MapFaces(original_indices, unique_idx, hull_faces) ==
    [f \in 1 .. Len(hull_faces) |->
        [c \in 1 .. 3 |-> original_indices[unique_idx[hull_faces[f][c] + 1] + 1]]]

\* The retained points in place of the input points.
RetainedPoints(points, original_indices) ==
    [j \in 1 .. Len(original_indices) |-> points[original_indices[j] + 1]]

\* points.tolist(), the first component of the returns of lines 34, 43 and
\* 48: all the points, whichever of them are valid.
ReturnedPoints(points, original_indices) == points

\* ------------------------------------------------------------ state
VARIABLES
    req,         \* the EvolutionRequest
    pc,          \* position of the generator generate()
    gen,         \* the loop variable `gen`
    population,  \* generate()'s `population`
    evaluated,   \* iterate_population's parameter `population`
    results,     \* iterate_population's `results`
    simSteps,    \* mj_step calls of the running drop test (mod StepCap + 1)
    nEval,       \* number of calls of fitness_func so far
    ranking,     \* iterate_population's `ranking`
    survivors,   \* iterate_population's `survivors`
    clones,      \* iterate_population's `clones`
    events,      \* the events generate() has yielded, in order
    received,    \* events the consumer has taken and come back from
    error,       \* the exception that ended the generator, or "none"
    surfPc,      \* position of a call of spherical_delaunay_surface
    surfIn,      \* its arguments
    surfLocals,  \* its locals directions, original_indices, unique_dirs, unique_idx
    surfOut,     \* what it returned
    hullCalls    \* calls of trimesh.convex.convex_hull it has made

evoVars == <<req, pc, gen, population, evaluated, results, simSteps, nEval,
             ranking, survivors, clones, events, received, error>>

surfVars == <<surfPc, surfIn, surfLocals, surfOut, hullCalls>>

vars == <<req, pc, gen, population, evaluated, results, simSteps, nEval,
          ranking, survivors, clones, events, received, error, surfPc,
          surfIn, surfLocals, surfOut, hullCalls>>

Requests ==
    {[population_size |-> p, num_generations |-> n, survival_weight |-> w[1],
      cloning_weight |-> w[2], pilot |-> b] :
        p \in 0 .. MaxPop, n \in 0 .. MaxGen, w \in WeightPairs, b \in BOOLEAN}

NoLocals ==
    [directions |-> <<>>, original_indices |-> <<>>, unique_dirs |-> <<>>,
     unique_idx |-> <<>>]

\* No call of the surface builder is under way.
SurfIdle ==
    /\ surfPc = "idle"
    /\ surfIn = [points |-> <<>>, center |-> NoCenter, decimals |-> 0]
    /\ surfLocals = NoLocals
    /\ surfOut = [points |-> <<>>, faces |-> <<>>]
    /\ hullCalls = 0

Init ==
    /\ SurfIdle
    /\ req \in Requests
    /\ pc = "new"
    /\ gen = 0
    /\ population = <<>>
    /\ evaluated = <<>>
    /\ results = <<>>
    /\ simSteps = 0
    /\ nEval = 0
    /\ ranking = <<>>
    /\ survivors = <<>>
    /\ clones = <<>>
    /\ events = <<>>
    /\ received = 0
    /\ error = "none"

\* ------------------------------------------------------------ generate()
\* The initial population: population_size random Vehicles built from the
\* request's attributes.
CreatePopulation ==
    /\ pc = "new"
    /\ \E p \in [1 .. req.population_size -> Genes] :
          population' = [i \in 1 .. req.population_size |-> Vehicle(p[i], req.pilot)]
    /\ pc' = "loop"
    /\ UNCHANGED <<req, gen, evaluated, results, simSteps, nEval, ranking,
                   survivors, clones, events, error>>
    /\ UNCHANGED <<received, surfVars>>

\* for gen in range(num_generations): the call of iterate_population up to
\* its assert, which passes.
IterateEnter ==
    /\ pc = "loop"
    /\ gen < req.num_generations
    /\ req.cloning_weight + req.survival_weight <= 10
    /\ evaluated' = population
    /\ results' = <<>>
    /\ pc' = "eval"
    /\ UNCHANGED <<req, gen, population, simSteps, nEval, ranking, survivors,
                   clones, events, error>>
    /\ UNCHANGED <<received, surfVars>>

\* assert cloning_weight + survival_weight <= 1.0 fails.
AssertFail ==
    /\ pc = "loop"
    /\ gen < req.num_generations
    /\ req.cloning_weight + req.survival_weight > 10
    /\ evaluated' = population
    /\ pc' = "failed"
    /\ error' = "AssertionError"
    /\ UNCHANGED <<req, gen, population, results, simSteps, nEval, ranking,
                   survivors, clones, events>>
    /\ UNCHANGED <<received, surfVars>>

\* The loop of generate() is exhausted: the stream ends.
Finish ==
    /\ pc = "loop"
    /\ gen >= req.num_generations
    /\ pc' = "done"
    /\ UNCHANGED <<req, gen, population, evaluated, results, simSteps, nEval,
                   ranking, survivors, clones, events, error>>
    /\ UNCHANGED <<received, surfVars>>

\* for genes in population: fitness_func(genes) is called; the simulation
\* is built and reset.
EvalBegin ==
    /\ pc = "eval"
    /\ Len(results) < Len(evaluated)
    /\ simSteps' = 0
    /\ nEval' = nEval + 1
    /\ pc' = "sim"
    /\ UNCHANGED <<req, gen, population, evaluated, results, ranking,
                   survivors, clones, events, error>>
    /\ UNCHANGED <<received, surfVars>>

\* while len(data.contact) < 1: mujoco.mj_step(model, data)
MjStep ==
    /\ pc = "sim"
    /\ ~Landed(evaluated[Len(results) + 1].v, simSteps)
    /\ simSteps' = (simSteps + 1) % (StepCap + 1)
    /\ UNCHANGED <<req, pc, gen, population, evaluated, results, nEval,
                   ranking, survivors, clones, events, error>>
    /\ UNCHANGED <<received, surfVars>>

\* The loop ends at the first contact; results.append(fitness).
EvalEnd ==
    /\ pc = "sim"
    /\ Landed(evaluated[Len(results) + 1].v, simSteps)
    /\ results' = Append(results, Fitness(evaluated[Len(results) + 1].v))
    /\ pc' = "eval"
    /\ UNCHANGED <<req, gen, population, evaluated, simSteps, nEval, ranking,
                   survivors, clones, events, error>>
    /\ UNCHANGED <<received, surfVars>>

\* Lines 64-78 with no survivor and at least one clone to make:
\* i % len(survivors) raises ZeroDivisionError.
CloneFail ==
    /\ pc = "eval"
    /\ Len(results) = Len(evaluated)
    /\ LET n  == Len(evaluated)
           rk == SortByFitnessDesc(Zip(evaluated, results))
           sv == SurvivorsOf(rk, n, req.survival_weight)
       IN  /\ sv = <<>>
           /\ NumClones(n, req.cloning_weight) > 0
           /\ ranking' = rk
           /\ survivors' = sv
    /\ clones' = <<>>
    /\ pc' = "failed"
    /\ error' = "ZeroDivisionError"
    /\ UNCHANGED <<req, gen, population, evaluated, results, simSteps, nEval,
                   events>>
    /\ UNCHANGED <<received, surfVars>>

\* iterate_population returns an empty ranking (an empty population):
\* ranking[0] in generate() raises IndexError.
BestFail ==
    /\ pc = "eval"
    /\ Len(results) = Len(evaluated)
    /\ evaluated = <<>>
    /\ ranking' = <<>>
    /\ survivors' = <<>>
    /\ clones' = <<>>
    /\ population' = <<>>
    /\ pc' = "failed"
    /\ error' = "IndexError"
    /\ UNCHANGED <<req, gen, evaluated, results, simSteps, nEval, events>>
    /\ UNCHANGED <<received, surfVars>>

GenerationBuffered ==
    /\ pc = "eval"
    /\ Len(results) = Len(evaluated)
    /\ evaluated # <<>>
    /\ LET n  == Len(evaluated)
           rk == SortByFitnessDesc(Zip(evaluated, results))
           sv == SurvivorsOf(rk, n, req.survival_weight)
           k  == NumClones(n, req.cloning_weight)
       IN  /\ (sv # <<>> \/ k = 0)
           /\ ranking' = rk
           /\ survivors' = sv
           /\ \E cl \in CloneLists(sv, k) :
              \E fl \in FillLists(RangeLen(n - k - Len(sv))) :
                 /\ clones' = cl
                 /\ population' = sv \o cl \o fl
           /\ events' = Append(events, GenerationResult(gen, rk))
    /\ gen' = gen + 1
    /\ pc' = "loop"
    /\ UNCHANGED <<req, evaluated, results, simSteps, nEval, error>>
    /\ UNCHANGED <<received, surfVars>>

\* The rest of one generation: rank, select, clone, fill, return, build the
\* GenerationResult and yield it.
Generation ==
    /\ pc = "eval"
    /\ Len(results) = Len(evaluated)
    /\ evaluated # <<>>
    /\ LET n  == Len(evaluated)
           rk == SortByFitnessDesc(Zip(evaluated, results))
           sv == SurvivorsOf(rk, n, req.survival_weight)
           k  == NumClones(n, req.cloning_weight)
       IN  /\ (sv # <<>> \/ k = 0)
           /\ ranking' = rk
           /\ survivors' = sv
           /\ \E cl \in CloneLists(sv, k) :
              \E fl \in FillLists(RangeLen(n - k - Len(sv))) :
                 /\ clones' = cl
                 /\ population' = sv \o cl \o fl
           /\ events' = Append(events, GenerationResult(gen, rk))
    /\ pc' = "yielded"
    /\ UNCHANGED <<req, gen, evaluated, results, simSteps, nEval, error>>
    /\ UNCHANGED <<received, surfVars>>

\* The consumer (StreamingResponse, line 157) has sent the event it was
\* given and asks for the next one: the generator resumes after its yield
\* and the loop advances.  The locals of the finished call of
\* iterate_population and the unpacked ranking are dead from here on (each is
\* assigned before it is read again) and are cleared.
Resume ==
    /\ pc = "yielded"
    /\ gen' = gen + 1
    /\ pc' = "loop"
    /\ received' = received + 1
    /\ evaluated' = <<>>
    /\ results' = <<>>
    /\ ranking' = <<>>
    /\ survivors' = <<>>
    /\ clones' = <<>>
    /\ UNCHANGED <<req, population, simSteps, nEval, events, error>>
    /\ UNCHANGED surfVars

Next ==
    \/ CreatePopulation
    \/ IterateEnter
    \/ AssertFail
    \/ Finish
    \/ EvalBegin
    \/ MjStep
    \/ EvalEnd
    \/ CloneFail
    \/ BestFail
    \/ Generation
    \/ Resume

Spec == Init /\ [][Next]_vars

FairSpec == Init /\ [][Next]_vars /\ WF_vars(Next)

\* ------------------------------------------------------------ SurfSpec
\* No evolution run is under way.
EvoIdle ==
    /\ req = [population_size |-> 0, num_generations |-> 0,
              survival_weight |-> 3, cloning_weight |-> 4, pilot |-> FALSE]
    /\ pc = "off"
    /\ gen = 0
    /\ population = <<>>
    /\ evaluated = <<>>
    /\ results = <<>>
    /\ simSteps = 0
    /\ nEval = 0
    /\ ranking = <<>>
    /\ survivors = <<>>
    /\ clones = <<>>
    /\ events = <<>>
    /\ received = 0
    /\ error = "none"

RECURSIVE SeqsUpTo(_, _)
SeqsUpTo(S, n) ==
    IF n = 0 THEN {<<>>}
    ELSE LET shorter == SeqsUpTo(S, n - 1)
         IN  shorter \cup {Append(q, x) : q \in {r \in shorter : Len(r) = n - 1}, x \in S}

SurfInit ==
    /\ EvoIdle
    /\ surfPc = "called"
    /\ surfIn \in [points : SeqsUpTo(Palette, MaxPts), center : Centers,
                   decimals : Decimals]
    /\ surfLocals = NoLocals
    /\ surfOut = [points |-> <<>>, faces |-> <<>>]
    /\ hullCalls = 0

\* if points.ndim != 2 or points.shape[0] < 4: return points.tolist(), []
\* (of a list of 3-vectors, only the empty one is not 2-dimensional).
ReturnTooFewPoints ==
    /\ surfPc = "called"
    /\ TooFewPoints(surfIn.points)
    /\ surfOut' = [points |-> surfIn.points, faces |-> <<>>]
    /\ surfPc' = "returned"
    /\ UNCHANGED <<surfIn, surfLocals, hullCalls>>
    /\ UNCHANGED evoVars

\* Lines 25-32: the center, the directions and their norms.
ComputeDirections ==
    /\ surfPc = "called"
    /\ ~TooFewPoints(surfIn.points)
    /\ LET d == Directions(surfIn.points, surfIn.center)
       IN  surfLocals' = [surfLocals EXCEPT !.directions = d,
                              !.original_indices = OriginalIndices(d, 1)]
    /\ surfPc' = "directed"
    /\ UNCHANGED <<surfIn, surfOut, hullCalls>>
    /\ UNCHANGED evoVars

\* if np.count_nonzero(valid) < 4: return points.tolist(), []
ReturnTooFewValid ==
    /\ surfPc = "directed"
    /\ TooFewValid(surfLocals.original_indices)
    /\ surfOut' = [points |-> ReturnedPoints(surfIn.points, surfLocals.original_indices),
                   faces |-> <<>>]
    /\ surfPc' = "returned"
    /\ UNCHANGED <<surfIn, surfLocals, hullCalls>>
    /\ UNCHANGED evoVars

\* Lines 36-41: normalise, round and collapse the directions.
CollapseDirections ==
    /\ surfPc = "directed"
    /\ ~TooFewValid(surfLocals.original_indices)
    /\ LET r == Rounded(surfLocals.directions, surfLocals.original_indices,
                        surfIn.decimals)
       IN  surfLocals' = [surfLocals EXCEPT !.unique_dirs = UniqueDirs(r),
                              !.unique_idx = UniqueIdx(r)]
    /\ surfPc' = "collapsed"
    /\ UNCHANGED <<surfIn, surfOut, hullCalls>>
    /\ UNCHANGED evoVars

\* if unique_dirs.shape[0] < 4: return points.tolist(), []
ReturnTooFewUnique ==
    /\ surfPc = "collapsed"
    /\ TooFewUnique(surfLocals.unique_dirs)
    /\ surfOut' = [points |-> ReturnedPoints(surfIn.points, surfLocals.original_indices),
                   faces |-> <<>>]
    /\ surfPc' = "returned"
    /\ UNCHANGED <<surfIn, surfLocals, hullCalls>>
    /\ UNCHANGED evoVars

\* The hull is computed and its faces are mapped back to the input's indices.
BuildSurface ==
    /\ surfPc = "collapsed"
    /\ ~TooFewUnique(surfLocals.unique_dirs)
    /\ hullCalls' = hullCalls + 1
    /\ \E face \in HullFaces(Len(surfLocals.unique_dirs)) :
          surfOut' = [points |-> ReturnedPoints(surfIn.points, surfLocals.original_indices),
                      faces  |-> MapFaces(surfLocals.original_indices,
                                          surfLocals.unique_idx, <<face>>)]
    /\ surfPc' = "returned"
    /\ UNCHANGED <<surfIn, surfLocals>>
    /\ UNCHANGED evoVars

\* The hull is computed and trimesh raises (Qhull rejects the directions).
HullRaises ==
    /\ surfPc = "collapsed"
    /\ ~TooFewUnique(surfLocals.unique_dirs)
    /\ hullCalls' = hullCalls + 1
    /\ surfPc' = "raised"
    /\ UNCHANGED <<surfIn, surfLocals, surfOut>>
    /\ UNCHANGED evoVars

SurfNext ==
    \/ ReturnTooFewPoints
    \/ ComputeDirections
    \/ ReturnTooFewValid
    \/ CollapseDirections
    \/ ReturnTooFewUnique
    \/ BuildSurface
    \/ HullRaises

SurfSpec == SurfInit /\ [][SurfNext]_vars

\* ------------------------------------------------------------ claims
Ended == pc \in {"done", "failed"}

\* iterate_population has ranked the population it was given.
Ranked == pc = "yielded" \/ error = "ZeroDivisionError"

\* C1: whenever the weights of the request sum to at most 1.0, the
\* population of generate() has population_size genomes after every
\* generation.
C1_PopulationSizeFixed ==
    (pc # "new" /\ req.survival_weight + req.cloning_weight <= 10)
        => Len(population) = req.population_size

\* C2: a run that has ended has streamed exactly num_generations events, the
\* i-th (0-based) with generation index i and population_size fitness
\* values.  Stated for the runs of at least one genome whose weights pass the
\* assert of iterate_population.
C2_ExactlyNEvents ==
    (Ended /\ error # "AssertionError" /\ req.population_size >= 1)
        => /\ Len(events) = req.num_generations
           /\ \A i \in 1 .. Len(events) :
                 /\ events[i].generation = i - 1
                 /\ Len(events[i].population_fitness) = req.population_size

\* C3: a run that is rejected for its configuration (weights that sum to
\* more than 1.0, or no survivor to clone from) is rejected before any
\* fitness evaluation.
C3_ConfigErrorBeforeEvaluation ==
    error \in {"AssertionError", "ZeroDivisionError"} => nEval = 0

\* C4: every fitness evaluation that starts comes to an end.
C4_EvaluationTerminates == (pc = "sim") ~> (pc # "sim")

\* C5: the ranking has one (genome, fitness) pair per member of the
\* evaluated population, fitness is non-increasing along it, and the pairs
\* of equal fitness keep the order they had in the population.
C5_RankingSortedStable ==
    Ranked =>
        /\ Len(ranking) = Len(evaluated)
        /\ \A i \in 1 .. Len(ranking) - 1 : ranking[i][2] >= ranking[i + 1][2]
        /\ \A f \in {results[i] : i \in 1 .. Len(results)} :
              LET HasF(x) == x[2] = f
              IN  SelectSeq(ranking, HasF) = SelectSeq(Zip(evaluated, results), HasF)

\* A ranking of three that the sort had to reorder, with a tie between two
\* different genomes and a strict descent.
C5_Witness ==
    /\ pc = "yielded"
    /\ Len(ranking) = 3
    /\ ranking # Zip(evaluated, results)
    /\ req.survival_weight >= 0
    /\ \E i \in 1 .. 2 :
          ranking[i][2] = ranking[i + 1][2] /\ ranking[i][1] # ranking[i + 1][1]
    /\ \E i \in 1 .. 2 : ranking[i][2] > ranking[i + 1][2]

\* C6: the survivors are the first floor(population_size * survival_weight)
\* genomes of the ranking, and the next population is the survivors, then
\* the clones, then the random fill.
C6_SurvivorsFirst ==
    pc = "yielded" =>
        LET n   == Len(evaluated)
            top == SubSeq(ranking, 1, FloorOfProduct(n, req.survival_weight))
        IN  /\ survivors = [i \in 1 .. Len(top) |-> top[i][1]]
            /\ Len(population) >= Len(survivors) + Len(clones)
            /\ SubSeq(population, 1, Len(survivors)) = survivors
            /\ SubSeq(population, Len(survivors) + 1,
                      Len(survivors) + Len(clones)) = clones

\* C9: the fitness list of an event is in population order: its k-th value
\* is the fitness of the k-th genome of the evaluated population.
C9_FitnessInPopulationOrder ==
    pc = "yielded" =>
        /\ events[Len(events)].population_fitness = results
        /\ \A k \in 1 .. Len(results) : results[k] = Fitness(evaluated[k].v)

\* C10: there are floor(population_size * cloning_weight) clones; clone i
\* is a mutation of survivor i % len(survivors) and has that survivor's
\* scalar attributes.  Stated for the requests without a negative weight.
C10_ClonesInherit ==
    (pc = "yielded" /\ req.survival_weight >= 0 /\ req.cloning_weight >= 0) =>
        /\ Len(clones) = FloorOfProduct(Len(evaluated), req.cloning_weight)
        /\ \A i \in 1 .. Len(clones) :
              LET s == survivors[((i - 1) % Len(survivors)) + 1]
              IN  /\ clones[i].v \in Mutations(s.v)
                  /\ clones[i].pilot = s.pilot

\* The number of distinct rounded unit directions of the points that do not
\* coincide with the center.
NumDirections(in) ==
    LET d == Directions(in.points, in.center)
        r == Rounded(d, OriginalIndices(d, 1), in.decimals)
    IN  Cardinality({r[j] : j \in 1 .. Len(r)})

\* C7: a call that returns hands back the input points, same length and
\* order, and every index of every face is an index into them.
C7_PointsKeptFacesInRange ==
    surfPc = "returned" =>
        /\ surfOut.points = surfIn.points
        /\ \A f \in 1 .. Len(surfOut.faces) : \A c \in 1 .. 3 :
              surfOut.faces[f][c] \in 0 .. Len(surfIn.points) - 1

\* A surface was built although a point coincided with the center and was
\* discarded, and a face reaches the last input point.
C7_Witness ==
    /\ surfPc = "returned"
    /\ surfOut.faces # <<>>
    /\ Len(surfLocals.original_indices) < Len(surfIn.points)
    /\ surfOut.faces[1][3] = Len(surfIn.points) - 1

\* C8: with fewer than 4 distinct valid directions the call returns the
\* input points and no face, raises nothing and never computes a hull.
C8_GracefulFailure ==
    (surfPc \in {"returned", "raised"} /\ NumDirections(surfIn) < 4) =>
        /\ surfPc = "returned"
        /\ surfOut.points = surfIn.points
        /\ surfOut.faces = <<>>
        /\ hullCalls = 0

\* Four different points or more, none at the center, whose directions the
\* rounding collapsed to fewer than four.
C8_Witness ==
    /\ surfPc = "returned"
    /\ Len(surfLocals.original_indices) = Len(surfIn.points)
    /\ Cardinality({surfIn.points[i] : i \in 1 .. Len(surfIn.points)}) >= 4
    /\ surfLocals.unique_dirs # <<>>
    /\ Len(surfLocals.unique_dirs) < 4
    /\ surfOut.faces = <<>>

\* C11: the events are yielded in generation order, and the event of
\* generation i has been yielded and taken in full by the consumer before
\* any fitness evaluation of generation i + 1 begins; the generator is never
\* more than one event ahead of the consumer.
C11_HandOffBeforeNextGeneration ==
    /\ \A i \in 1 .. Len(events) : events[i].generation = i - 1
    /\ Len(events) - received \in {0, 1}
    /\ pc \in {"eval", "sim"} => (Len(events) = gen /\ received = gen)

\* A fitness evaluation of a later generation is under way, after the
\* consumer has come back for every earlier event.
C11_Witness ==
    /\ pc = "sim"
    /\ gen >= 1
    /\ Len(events) = gen
    /\ received = gen

\* C12: when at least one survivor is kept
\* (floor(population_size * survival_weight) >= 1), the top-ranked genome of
\* a generation is first in the population the next generation evaluates,
\* unmodified, and the best fitness of successive events never decreases.
C12_BestFitnessNeverDecreases ==
    FloorOfProduct(req.population_size, req.survival_weight) >= 1 =>
        /\ \A i \in 1 .. Len(events) - 1 :
              events[i + 1].best_fitness >= events[i].best_fitness
        /\ pc = "yielded" => population[1] = ranking[1][1]
        /\ (pc \in {"eval", "sim"} /\ gen >= 1) =>
              /\ evaluated[1] = events[gen].best_vehicle
              /\ Fitness(evaluated[1].v) = events[gen].best_fitness

\* Two generations with a survivor kept: the second evaluated a genome
\* worse than the best of the first, and its best is the one carried over.
C12_Witness ==
    /\ pc = "yielded"
    /\ Len(events) = 2
    /\ FloorOfProduct(req.population_size, req.survival_weight) >= 1
    /\ events[1].best_fitness = 1
    /\ \E k \in 1 .. Len(results) : results[k] < events[1].best_fitness
    /\ \A k \in 2 .. Len(results) : results[k] < events[1].best_fitness
    /\ events[2].best_fitness = 1

====
